---- MODULE Spec2Model ----
(***************************************************************************)
(* A model of the <dw-swipeable> custom element (src/dw-swipeable.js):     *)
(* its touch-gesture handlers, its two requestAnimationFrame loops (_swipe *)
(* and _reset), _transform, _dispatchAction and the connect / disconnect   *)
(* lifecycle.                                                              *)
(*                                                                         *)
(* Numbers.  Touch coordinates, offsetWidth, offsetHeight and threshold    *)
(* are CSS pixels.  An offset (_translateX, pixelPerFrame) is an integer   *)
(* count of 1/Scale pixel, Scale == AnimFrames^MaxDepth, so that the       *)
(* division by (animationTime * 0.06) of _swipe and _reset is exact.  A    *)
(* JavaScript value that may be undefined or NaN is a record               *)
(* [t |-> "number" | "NaN" | "undefined", v |-> Int].                      *)
(***************************************************************************)
EXTENDS Integers, Sequences, FiniteSets, TLC

\* ------------------------------------------------------------ bounds
\* this.animationTime * 0.06, the divisor of lines 282 and 301 (the number of
\* frames of an animation): animationTime = 50 ms gives 3.
AnimFrames == 3
\* An animation may start from an offset that is a multiple of
\* 1/AnimFrames^(MaxDepth-1) pixel: a whole pixel for 1, also the offsets a first
\* animation steps through for 2.
MaxDepth == 1
\* this.offsetWidth and this.offsetHeight of the element, in pixels.
offsetWidth == 120
offsetHeight == 60
\* new Date().getTime() returns a multiple of TickMs up to MaxTime.
TickMs == 150
MaxTime == 300
\* Fingers that can be down on the content at once.
MaxTouches == 1
\* connectedCallback runs at most MaxConnects times.
MaxConnects == 1
\* Animation loops (_swipe and _reset calls) started in one run.
MaxLoops == 2

\* ------------------------------------------------- program constants
threshold == 10
velocityNum == 3
velocityDen == 10
PlaceholderWidth == 100

Scale == AnimFrames ^ MaxDepth

\* clientX and clientY of the touch points the environment delivers. The handlers
\* read only differences from the start point, so a finger goes down at one of
\* StartXs, at height 0.
StartXs == {50}
StartYs == {0}
ClientXs == {0, 20, 40, 50, 130, 250}
ClientYs == {0, 50, 130}

\* ------------------------------------------------- JavaScript values
Undefined == [t |-> "undefined", v |-> 0]
NaN == [t |-> "NaN", v |-> 0]
Num(n) == [t |-> "number", v |-> n]
IsNum(a) == a.t = "number"

AbsInt(n) == IF n < 0 THEN -n ELSE n

\* a < b, a <= b, a >= b: false when either side is NaN (undefined becomes NaN).
Lt(a, b) == IsNum(a) /\ IsNum(b) /\ a.v < b.v
Le(a, b) == IsNum(a) /\ IsNum(b) /\ a.v <= b.v
Ge(a, b) == IsNum(a) /\ IsNum(b) /\ a.v >= b.v
Add(a, b) == IF IsNum(a) /\ IsNum(b) THEN Num(a.v + b.v) ELSE NaN
Sub(a, b) == IF IsNum(a) /\ IsNum(b) THEN Num(a.v - b.v) ELSE NaN
Neg(a) == IF IsNum(a) THEN Num(-a.v) ELSE NaN
MathAbs(a) == IF IsNum(a) THEN Num(AbsInt(a.v)) ELSE NaN
MathMax(a, b) == IF IsNum(a) /\ IsNum(b) THEN (IF a.v >= b.v THEN a ELSE b) ELSE NaN
MathMin(a, b) == IF IsNum(a) /\ IsNum(b) THEN (IF a.v <= b.v THEN a ELSE b) ELSE NaN
\* a / (this.animationTime * 0.06)
DivFrames(a) == IF IsNum(a) THEN Num(a.v \div AnimFrames) ELSE NaN

\* this.offsetWidth as an offset.
Width == Num(offsetWidth * Scale)

\* A scale factor n/d, or NaN.
Ratio(n, d) == [t |-> "number", n |-> n, d |-> d]
RatioNaN == [t |-> "NaN", n |-> 0, d |-> 1]
RatioUndefined == [t |-> "undefined", n |-> 0, d |-> 1]

\* ------------------------------------------------------------- state
VARIABLES
  leftAction, rightAction,   \* the configured actions
  connects, isConnected,     \* connectedCallback count; element is in the document
  updatePending,             \* updateComplete.then callbacks not yet run
  content,                   \* this._content is set
  listeners,                 \* bound handler triples registered on this._content
  touchStartPoints, touchStartTime,
  translateX, scaleX, placeholderTextScaleX,
  style,                     \* style.transform of content and placeholders
  rafCallbacks,              \* callbacks requested for the next frame
  frameCallbacks,            \* callbacks of the running frame not yet run
  now,                       \* the last reading of new Date().getTime()
  touches,                   \* fingers down on the content
  loops,                     \* _swipe and _reset calls so far
  event,                     \* what the event loop processed last
  lastTouch,                 \* what the last touch event did
  dispatched                 \* `action` events dispatched by the last step

config == <<leftAction, rightAction>>
lifecycle == <<connects, isConnected, updatePending, content, listeners>>
widget == <<touchStartPoints, touchStartTime, translateX, scaleX,
            placeholderTextScaleX, style, rafCallbacks>>
vars == <<config, lifecycle, widget, frameCallbacks, now, touches, loops, event,
         lastTouch, dispatched>>

NoAction == [present |-> FALSE, name |-> ""]
Action(name) == [present |-> TRUE, name |-> name]
\* <<leftAction, rightAction>> as the host sets them.
Configs == {<<Action("DELETE"), NoAction>>, <<Action(""), Action("ARCHIVE")>>}

NoStyle == [content |-> Undefined, left |-> Undefined, leftScale |-> RatioUndefined,
            leftText |-> RatioUndefined, right |-> Undefined,
            rightScale |-> RatioUndefined, rightText |-> RatioUndefined]

Ev(type, x, y) == [type |-> type, x |-> x, y |-> y]

\* The fields the gesture handlers read and write, as one record.
Self == [touchStartPoints |-> touchStartPoints, touchStartTime |-> touchStartTime,
         translateX |-> translateX, scaleX |-> scaleX,
         placeholderTextScaleX |-> placeholderTextScaleX, style |-> style,
         raf |-> rafCallbacks, out |-> <<>>]

Store(s) ==
  /\ touchStartPoints' = s.touchStartPoints
  /\ touchStartTime' = s.touchStartTime
  /\ translateX' = s.translateX
  /\ scaleX' = s.scaleX
  /\ placeholderTextScaleX' = s.placeholderTextScaleX
  /\ style' = s.style
  /\ rafCallbacks' = s.raf
  /\ dispatched' = s.out

Init ==
  /\ \E c \in Configs : leftAction = c[1] /\ rightAction = c[2]
  /\ connects = 0
  /\ isConnected = FALSE
  /\ updatePending = 0
  /\ content = FALSE
  /\ listeners = 0
  /\ touchStartPoints = <<>>
  /\ touchStartTime = Undefined
  /\ translateX = Undefined
  /\ scaleX = RatioUndefined
  /\ placeholderTextScaleX = RatioUndefined
  /\ style = NoStyle
  /\ rafCallbacks = <<>>
  /\ frameCallbacks = <<>>
  /\ now = 0
  /\ touches = 0
  /\ loops = 0
  /\ event = Ev("init", 0, 0)
  /\ lastTouch = "none"
  /\ dispatched = <<>>

\* ---------------------------------------------------------- handlers
\* _transform(position): lines 319-335.
_transform(s, position) ==
  LET tx == IF Lt(position, Num(0)) THEN MathMax(position, Neg(Width))
                                    ELSE MathMin(position, Width)
      \* Math.max(1, Math.abs(tx / 100))
      sx == IF ~IsNum(tx) THEN RatioNaN
            ELSE IF AbsInt(tx.v) > PlaceholderWidth * Scale
                 THEN Ratio(AbsInt(tx.v), PlaceholderWidth * Scale)
                 ELSE Ratio(1, 1)
      \* Math.min(1, 100 / Math.abs(tx)); 100 / 0 is Infinity
      px == IF ~IsNum(tx) THEN RatioNaN
            ELSE IF AbsInt(tx.v) > PlaceholderWidth * Scale
                 THEN Ratio(PlaceholderWidth * Scale, AbsInt(tx.v))
                 ELSE Ratio(1, 1)
      st == [s.style EXCEPT
               !.content = tx,
               !.left = IF leftAction.present THEN tx ELSE @,
               !.leftScale = IF leftAction.present THEN sx ELSE @,
               !.leftText = IF leftAction.present THEN px ELSE @,
               !.right = IF rightAction.present THEN tx ELSE @,
               !.rightScale = IF rightAction.present THEN sx ELSE @,
               !.rightText = IF rightAction.present THEN px ELSE @]
  IN [s EXCEPT !.translateX = tx, !.scaleX = sx, !.placeholderTextScaleX = px,
               !.style = st]

\* _dispatchAction reading the action of the opposite side.
_dispatchAction_Swapped(s, action) ==
  LET spec == IF action = "LEFT" /\ rightAction.present THEN rightAction
              ELSE IF action = "RIGHT" /\ leftAction.present THEN leftAction
              ELSE NoAction
  IN IF spec.name = "" THEN s
     ELSE [s EXCEPT !.out = Append(@, [type |-> "action", name |-> spec.name])]

\* _dispatchAction without the return of lines 348-350.
_dispatchAction_Unchecked(s, action) ==
  LET spec == IF action = "LEFT" /\ leftAction.present THEN leftAction
              ELSE IF action = "RIGHT" /\ rightAction.present THEN rightAction
              ELSE NoAction
  IN [s EXCEPT !.out = Append(@, [type |-> "action", name |-> spec.name])]

\* _dispatchAction(action): lines 340-354.
_dispatchAction(s, action) ==
  LET spec == IF action = "LEFT" /\ leftAction.present THEN leftAction
              ELSE IF action = "RIGHT" /\ rightAction.present THEN rightAction
              ELSE NoAction
  IN IF spec.name = "" THEN s
     ELSE [s EXCEPT !.out = Append(@, [type |-> "action", name |-> spec.name])]

\* _onTouchStart(e): lines 226-229.
_onTouchStart(s, x, y, t) ==
  [s EXCEPT !.touchStartPoints = <<x, y>>, !.touchStartTime = Num(t)]

\* Math.abs(diffX) / Math.abs(diffY) < 1: n / 0 is Infinity, 0 / 0 is NaN.
RatioBelowOne(diffX, diffY) == diffY # 0 /\ AbsInt(diffX) < AbsInt(diffY)

\* _onTouchMove with the start test applied to every move.
_onTouchMove_Gated(s, x, y) ==
  IF s.touchStartPoints = <<>> THEN s
  ELSE LET diffX == x - s.touchStartPoints[1]
           diffY == y - s.touchStartPoints[2]
       IN IF RatioBelowOne(diffX, diffY) \/ AbsInt(diffY) > offsetHeight
             \/ AbsInt(diffX) <= threshold
          THEN s
          ELSE _transform(s, Num(diffX * Scale))

\* _onTouchMove with |diffX| < threshold for |diffX| <= threshold.
_onTouchMove_Strict(s, x, y) ==
  IF s.touchStartPoints = <<>> THEN s
  ELSE LET diffX == x - s.touchStartPoints[1]
           diffY == y - s.touchStartPoints[2]
       IN IF s.translateX = Undefined
             /\ (RatioBelowOne(diffX, diffY) \/ AbsInt(diffY) > offsetHeight
                 \/ AbsInt(diffX) < threshold)
          THEN s
          ELSE _transform(s, Num(diffX * Scale))

\* _onTouchMove(e): lines 237-248. Reading [0] of an undefined _touchStartPoints
\* throws a TypeError, which leaves the state as it is.
_onTouchMove(s, x, y) ==
  IF s.touchStartPoints = <<>> THEN s
  ELSE LET diffX == x - s.touchStartPoints[1]
           diffY == y - s.touchStartPoints[2]
       IN IF s.translateX = Undefined
             /\ (RatioBelowOne(diffX, diffY) \/ AbsInt(diffY) > offsetHeight
                 \/ AbsInt(diffX) <= threshold)
          THEN s
          ELSE _transform(s, Num(diffX * Scale))

\* _swipe(): lines 279-282 and 293. The step closure is a record of what it captures.
_swipe(s) ==
  LET direction == IF Lt(s.translateX, Num(0)) THEN "LEFT" ELSE "RIGHT"
      diff == IF Lt(s.translateX, Num(0)) THEN Sub(Neg(Width), s.translateX)
                                          ELSE Sub(Width, s.translateX)
      pixelPerFrame == MathAbs(DivFrames(diff))
  IN [s EXCEPT !.raf = Append(@, [fn |-> "swipe", direction |-> direction,
                                  pixelPerFrame |-> pixelPerFrame])]

\* _reset(): lines 299-301 and 312.
_reset(s) ==
  LET direction == IF Lt(s.translateX, Num(0)) THEN "LEFT" ELSE "RIGHT"
      pixelPerFrame == MathAbs(DivFrames(s.translateX))
  IN [s EXCEPT !.raf = Append(@, [fn |-> "reset", direction |-> direction,
                                  pixelPerFrame |-> pixelPerFrame])]

\* The commit condition with && for ||.
CommitCondition_Both(diffX, timeDiff) ==
  /\ AbsInt(diffX) * velocityDen > velocityNum * timeDiff
  /\ 2 * AbsInt(diffX) > offsetWidth

\* velocity > this.velocity || Math.abs(diffX) > this.offsetWidth / 2 (line 268),
\* velocity = |diffX| / timeDiff (Infinity or NaN when timeDiff is 0).
CommitCondition(diffX, timeDiff) ==
  \/ AbsInt(diffX) * velocityDen > velocityNum * timeDiff
  \/ 2 * AbsInt(diffX) > offsetWidth

\* _onTouchEnd without the early return of lines 259-261.
_onTouchEnd_NoGuard(s, x, y, t) ==
  IF s.touchStartPoints = <<>> THEN s
  ELSE LET diffX == x - s.touchStartPoints[1]
           timeDiff == t - s.touchStartTime.v
       IN IF CommitCondition(diffX, timeDiff) THEN _swipe(s) ELSE _reset(s)

\* _onTouchEnd(e): lines 258-274.
_onTouchEnd(s, x, y, t) ==
  IF s.translateX = Undefined THEN s
  ELSE LET diffX == x - s.touchStartPoints[1]
           timeDiff == t - s.touchStartTime.v
       IN IF CommitCondition(diffX, timeDiff) THEN _swipe(s) ELSE _reset(s)

\* The step closure of _swipe: lines 283-292.
SwipeStep(s, cb) ==
  IF Ge(MathAbs(s.translateX), Width)
  THEN [_dispatchAction(s, cb.direction) EXCEPT !.translateX = Undefined]
  ELSE LET transformX ==
             IF cb.direction = "LEFT"
             THEN MathMax(Sub(s.translateX, cb.pixelPerFrame), Neg(Width))
             ELSE MathMin(Add(s.translateX, cb.pixelPerFrame), Width)
           r == _transform(s, transformX)
       IN [r EXCEPT !.raf = Append(@, cb)]

\* The step closure of _reset: lines 302-311.
ResetStep(s, cb) ==
  IF \/ cb.direction = "LEFT" /\ Ge(s.translateX, Num(0))
     \/ cb.direction = "RIGHT" /\ Le(s.translateX, Num(0))
  THEN [s EXCEPT !.translateX = Undefined]
  ELSE LET transformX ==
             IF cb.direction = "LEFT"
             THEN MathMin(Add(s.translateX, cb.pixelPerFrame), Num(0))
             ELSE MathMax(Sub(s.translateX, cb.pixelPerFrame), Num(0))
           r == _transform(s, transformX)
       IN [r EXCEPT !.raf = Append(@, cb)]

\* An event runs every listener registered for its type, in order.
RECURSIVE RunTouchStart(_, _, _, _, _)
RunTouchStart(n, s, x, y, t) ==
  IF n = 0 THEN s ELSE RunTouchStart(n - 1, _onTouchStart(s, x, y, t), x, y, t)

RECURSIVE RunTouchMove(_, _, _, _)
RunTouchMove(n, s, x, y) ==
  IF n = 0 THEN s ELSE RunTouchMove(n - 1, _onTouchMove(s, x, y), x, y)

RECURSIVE RunTouchEnd(_, _, _, _, _)
RunTouchEnd(n, s, x, y, t) ==
  IF n = 0 THEN s ELSE RunTouchEnd(n - 1, _onTouchEnd(s, x, y, t), x, y, t)

\* The offset an animation starts from is a multiple of AnimFrames/Scale pixel
\* (the division by animationTime * 0.06 is exact in the model's numbers).
ExactStart(tx) == IsNum(tx) => tx.v % AnimFrames = 0

\* ----------------------------------------------------------- actions
\* connectedCallback(): lines 134-136; the listeners are added once
\* updateComplete resolves.
ConnectedCallback ==
  /\ ~isConnected
  /\ frameCallbacks = <<>>
  /\ connects < MaxConnects
  /\ connects' = connects + 1
  /\ isConnected' = TRUE
  /\ updatePending' = updatePending + 1
  /\ event' = Ev("connected", 0, 0)
  /\ dispatched' = <<>>
  /\ UNCHANGED <<config, content, listeners, widget, frameCallbacks, now, touches,
                 loops, lastTouch>>

\* The updateComplete.then callback: lines 136-151. Each bind() makes a new
\* function, so every run registers three more listeners.
UpdateComplete ==
  /\ updatePending > 0
  /\ updatePending' = updatePending - 1
  /\ content' = TRUE
  /\ listeners' = listeners + 1
  /\ event' = Ev("updateComplete", 0, 0)
  /\ dispatched' = <<>>
  /\ UNCHANGED <<config, connects, isConnected, widget, frameCallbacks, now, touches,
                 loops, lastTouch>>

\* disconnectedCallback(): lines 154-159. removeEventListener is passed the
\* unbound methods, which were never registered: no listener is removed. With
\* this._content not yet set the first call throws.
DisconnectedCallback ==
  /\ isConnected
  /\ frameCallbacks = <<>>
  /\ isConnected' = FALSE
  /\ event' = Ev("disconnected", 0, 0)
  /\ dispatched' = <<>>
  /\ UNCHANGED <<config, connects, updatePending, content, listeners, widget,
                 frameCallbacks, now, touches, loops, lastTouch>>

\* What new Date().getTime() can return: the clock never goes back.
ClockReadings == {t \in {k * TickMs : k \in 0..(MaxTime \div TickMs)} : t >= now}

\* A finger goes down on the content (the element is rendered).
TouchStart ==
  /\ frameCallbacks = <<>>
  /\ isConnected /\ content
  /\ touches < MaxTouches
  /\ \E x \in StartXs, y \in StartYs, t \in ClockReadings :
       /\ Store(RunTouchStart(listeners, Self, x, y, t))
       /\ event' = Ev("touchstart", x, y)
       /\ now' = t
  /\ touches' = touches + 1
  /\ lastTouch' = "touchstart"
  /\ UNCHANGED <<config, lifecycle, frameCallbacks, loops>>

\* A finger that is down moves; its events reach the content it went down on.
TouchMove ==
  /\ frameCallbacks = <<>>
  /\ touches > 0
  /\ \E x \in ClientXs, y \in ClientYs :
       /\ Store(RunTouchMove(listeners, Self, x, y))
       /\ event' = Ev("touchmove", x, y)
  /\ lastTouch' = IF translateX' = Undefined THEN "ignored"
                  ELSE IF translateX = Undefined THEN "started" ELSE "moved"
  /\ UNCHANGED <<config, lifecycle, frameCallbacks, now, touches, loops>>

\* A finger that is down is lifted. The event keeps the clientX the handler reads.
TouchEnd ==
  /\ frameCallbacks = <<>>
  /\ touches > 0
  /\ ExactStart(translateX)
  /\ translateX # Undefined => loops + listeners <= MaxLoops
  /\ \E x \in ClientXs, y \in ClientYs, t \in ClockReadings :
       /\ Store(RunTouchEnd(listeners, Self, x, y, t))
       /\ event' = Ev("touchend", x, 0)
       /\ now' = t
  /\ loops' = loops + (Len(rafCallbacks') - Len(rafCallbacks))
  /\ lastTouch' = IF Len(rafCallbacks') = Len(rafCallbacks) THEN "noop"
                  ELSE rafCallbacks'[Len(rafCallbacks')].fn
  /\ touches' = touches - 1
  /\ UNCHANGED <<config, lifecycle, frameCallbacks>>

\* The callbacks a frame runs: those left of the running frame, or, when a new
\* frame begins, those requested since the last one.
FrameQueue == IF frameCallbacks = <<>> THEN rafCallbacks ELSE frameCallbacks
NextCallback == Head(FrameQueue)
\* The state the next callback runs in: a new frame takes the requested
\* callbacks over, and requests made from now on are for the frame after.
FrameSelf == IF frameCallbacks = <<>> THEN [Self EXCEPT !.raf = <<>>] ELSE Self

\* An animation frame runs the next step closure of a _swipe loop.
AnimationFrameSwipe ==
  /\ FrameQueue # <<>>
  /\ NextCallback.fn = "swipe"
  /\ Store(SwipeStep(FrameSelf, NextCallback))
  /\ frameCallbacks' = Tail(FrameQueue)
  /\ event' = Ev("swipe step", 0, 0)
  /\ UNCHANGED <<config, lifecycle, now, touches, loops, lastTouch>>

\* An animation frame runs the next step closure of a _reset loop.
AnimationFrameReset ==
  /\ FrameQueue # <<>>
  /\ NextCallback.fn = "reset"
  /\ Store(ResetStep(FrameSelf, NextCallback))
  /\ frameCallbacks' = Tail(FrameQueue)
  /\ event' = Ev("reset step", 0, 0)
  /\ UNCHANGED <<config, lifecycle, now, touches, loops, lastTouch>>

Next ==
  \/ ConnectedCallback
  \/ UpdateComplete
  \/ DisconnectedCallback
  \/ TouchStart
  \/ TouchMove
  \/ TouchEnd
  \/ AnimationFrameSwipe
  \/ AnimationFrameReset

Spec == Init /\ [][Next]_vars

\* ------------------------------------------------------------ claims
\* What the last step was.
IsTouchEnd == event.type = "touchend"
IsTouchMove == event.type = "touchmove"
IsStep == event.type \in {"swipe step", "reset step"}
\* The displacement and the elapsed time the touch event of the last step
\* carried, from the start point and start time on record.
EventDiffX == event.x - touchStartPoints[1]
EventDiffY == event.y - touchStartPoints[2]
EventTimeDiff == now - touchStartTime.v
\* The callbacks the handlers of the last step requested: the pending callbacks
\* from position n + 1 on.
PendingLoops == Len(rafCallbacks) + Len(frameCallbacks)

\* C1: a touch-end that finds a transform in progress, with
\* |diffX| / elapsed > velocity or |diffX| > offsetWidth / 2, starts the commit
\* animation (_swipe), one per registered listener, and no reset animation.
C1_CommitRule ==
  [][(IsTouchEnd' /\ listeners > 0 /\ translateX # Undefined
        /\ (\/ AbsInt(EventDiffX') * velocityDen > velocityNum * EventTimeDiff'
            \/ 2 * AbsInt(EventDiffX') > offsetWidth))
     => /\ Len(rafCallbacks') = Len(rafCallbacks) + listeners
        /\ \A i \in 1..Len(rafCallbacks') :
             i > Len(rafCallbacks) => rafCallbacks'[i].fn = "swipe"
        /\ SubSeq(rafCallbacks', 1, Len(rafCallbacks)) = rafCallbacks]_vars

\* A slow but far swipe has just been committed.
C1_Witness_SlowFar ==
  /\ IsTouchEnd /\ lastTouch = "swipe"
  /\ ~(AbsInt(EventDiffX) * velocityDen > velocityNum * EventTimeDiff)
  /\ 2 * AbsInt(EventDiffX) > offsetWidth
  /\ rafCallbacks[Len(rafCallbacks)].fn = "swipe"

\* A fast but short swipe, over a time that is not zero, has just been committed.
C1_Seen_FastShort ==
  /\ IsTouchEnd /\ lastTouch = "swipe"
  /\ EventTimeDiff > 0
  /\ AbsInt(EventDiffX) * velocityDen > velocityNum * EventTimeDiff
  /\ ~(2 * AbsInt(EventDiffX) > offsetWidth)

\* The `action` event _dispatchAction emits for a name.
ActionEvent(name) == [type |-> "action", name |-> name]
ActionOf(direction) == IF direction = "LEFT" THEN leftAction ELSE rightAction

\* C2: a touch-end that finds a transform in progress, with neither
\* velocity > this.velocity nor |diffX| > offsetWidth / 2, starts the reset
\* animation and no commit animation; and for as long as no further touch event
\* arrives no `action` event is emitted, and once no animation step is pending
\* the offset applied to the content is exactly 0.
C2_ResetRule ==
  /\ [][(IsTouchEnd' /\ listeners > 0 /\ translateX # Undefined
           /\ ~(AbsInt(EventDiffX') * velocityDen > velocityNum * EventTimeDiff')
           /\ ~(2 * AbsInt(EventDiffX') > offsetWidth))
        => /\ Len(rafCallbacks') = Len(rafCallbacks) + listeners
           /\ \A i \in 1..Len(rafCallbacks') :
                i > Len(rafCallbacks) => rafCallbacks'[i].fn = "reset"]_vars
  /\ [](lastTouch = "reset"
          => /\ dispatched = <<>>
             /\ PendingLoops = 0 => style.content = Num(0))

\* The same reset has run to its end with no other animation in its way.
C2_Seen_ResetAlone ==
  /\ lastTouch = "reset" /\ loops = 1 /\ PendingLoops = 0
  /\ translateX = Undefined /\ style.content = Num(0)

\* C3: the step of a commit animation that ends it (the step is not requested
\* again) emits exactly one `action` event, named as the action configured for
\* the animation's direction, when that name is not empty; no other step of a
\* commit animation, no step of a reset animation and no other operation emits
\* an `action` event.
C3_ActionOncePerCommit ==
  [][IF event'.type = "swipe step"
     THEN LET cb == NextCallback
              ended == rafCallbacks' = FrameSelf.raf
          IN IF ended /\ ActionOf(cb.direction).present
                      /\ ActionOf(cb.direction).name # ""
             THEN dispatched' = <<ActionEvent(ActionOf(cb.direction).name)>>
             ELSE ended \/ dispatched' = <<>>
     ELSE dispatched' = <<>>]_vars

\* A commit to the left has ended and emitted the left action's name.
C3_Witness_Emitted ==
  /\ event.type = "swipe step"
  /\ leftAction.name = "DELETE"
  /\ dispatched = <<ActionEvent("DELETE")>>
  /\ translateX = Undefined
  /\ style.content = Neg(Width)

\* C4: with no transform in progress, a touch-move starts one if and only if
\* |diffX| > threshold, |diffX| >= |diffY| (or diffY = 0) and
\* |diffY| <= offsetHeight; otherwise the offset stays undefined.
C4_MoveStartsTransform ==
  [][(IsTouchMove' /\ listeners > 0 /\ translateX = Undefined
        /\ touchStartPoints # <<>>)
     => (translateX' # Undefined
          <=> /\ AbsInt(EventDiffX') > threshold
              /\ (EventDiffY' = 0 \/ AbsInt(EventDiffX') >= AbsInt(EventDiffY'))
              /\ AbsInt(EventDiffY') <= offsetHeight)]_vars

\* A move that is exactly as horizontal as vertical has started a transform.
C4_Witness_Started ==
  /\ IsTouchMove /\ lastTouch = "started"
  /\ EventDiffY # 0 /\ AbsInt(EventDiffX) = AbsInt(EventDiffY)
  /\ translateX = Num(EventDiffX * Scale)

\* Moves that did not start a transform: too short, too vertical, too high.
C4_Seen_TooShort ==
  /\ IsTouchMove /\ lastTouch = "ignored" /\ listeners > 0
  /\ EventDiffX # 0 /\ AbsInt(EventDiffX) <= threshold /\ EventDiffY = 0
C4_Seen_TooVertical ==
  /\ IsTouchMove /\ lastTouch = "ignored" /\ listeners > 0
  /\ AbsInt(EventDiffX) > threshold /\ AbsInt(EventDiffX) < AbsInt(EventDiffY)
  /\ AbsInt(EventDiffY) <= offsetHeight
C4_Seen_TooHigh ==
  /\ IsTouchMove /\ lastTouch = "ignored" /\ listeners > 0
  /\ AbsInt(EventDiffX) > threshold /\ AbsInt(EventDiffX) >= AbsInt(EventDiffY)
  /\ AbsInt(EventDiffY) > offsetHeight

\* C5: in every reachable state _translateX is undefined or a number within
\* [-offsetWidth, +offsetWidth]; it is never NaN or out of range.
C5_OffsetInRange ==
  \/ translateX = Undefined
  \/ IsNum(translateX) /\ Le(Neg(Width), translateX) /\ Le(translateX, Width)

\* A drag beyond the width has been clamped to the width.
C5_Seen_Clamped ==
  /\ IsTouchMove /\ listeners > 0
  /\ AbsInt(EventDiffX) > offsetWidth
  /\ translateX = Width

C7_AbsentSideDisabled ==
  /\ ~leftAction.present
       => /\ ~Lt(translateX, Num(0))
          /\ \A i \in 1..Len(rafCallbacks) :
               ~(rafCallbacks[i].fn = "swipe" /\ rafCallbacks[i].direction = "LEFT")
  /\ ~rightAction.present
       => /\ ~Lt(Num(0), translateX)
          /\ \A i \in 1..Len(rafCallbacks) :
               ~(rafCallbacks[i].fn = "swipe" /\ rafCallbacks[i].direction = "RIGHT")

\* C8: once disconnectedCallback has run, a touch event delivered to the content
\* runs no gesture handler: it changes no field of the widget and requests no
\* animation frame.
C8_ListenersReleased ==
  [][(connects > 0 /\ ~isConnected /\ UNCHANGED lifecycle
        /\ event'.type \in {"touchstart", "touchmove", "touchend"})
     => UNCHANGED widget]_vars

\* C9: a touch-end that finds no transform in progress changes no field of the
\* widget, requests no animation frame and emits no event.
C9_TouchEndIdleNoop ==
  [][(IsTouchEnd' /\ translateX = Undefined)
     => /\ UNCHANGED <<translateX, scaleX, placeholderTextScaleX, style,
                       touchStartPoints, touchStartTime>>
        /\ UNCHANGED <<rafCallbacks, frameCallbacks>>
        /\ dispatched' = <<>>]_vars

\* A listener has handled a touch-end with no transform in progress.
C9_Witness_IdleTouchEnd ==
  /\ IsTouchEnd /\ listeners > 0 /\ lastTouch = "noop"
  /\ touchStartPoints # <<>>
  /\ translateX = Undefined
  /\ PendingLoops = 0

\* C10: at most one animation loop (a pending step closure of _swipe or _reset)
\* exists at any time, and a touch-move moves the offset only while none is
\* pending.
C10_OneModeAtATime ==
  /\ [](PendingLoops <= 1)
  /\ [][(IsTouchMove' /\ PendingLoops > 0) => translateX' = translateX]_vars

\* The step closures a touch-end has just requested.
Started == SubSeq(rafCallbacks', Len(rafCallbacks) + 1, Len(rafCallbacks'))
Target(cb) ==
  IF cb.fn = "reset" THEN Num(0)
  ELSE IF cb.direction = "LEFT" THEN Neg(Width) ELSE Width

\* C11: a touch-end that commits starts its _swipe loop in direction LEFT if and
\* only if the touch-end's own diffX (touch-end x minus touch-start x) is
\* negative, and in direction RIGHT otherwise.
C11_DirectionFollowsDiffX ==
  [][(IsTouchEnd' /\ listeners > 0 /\ translateX # Undefined)
     => \A i \in 1..Len(Started) :
          Started[i].fn = "swipe"
            => (Started[i].direction = "LEFT" <=> EventDiffX' < 0)]_vars

\* C12: whenever a step emits an `action` event, the offset applied to the
\* content is -offsetWidth for a LEFT loop and +offsetWidth for a RIGHT loop, and
\* while the event is the last thing that happened the offset is still there.
C12_ActionAtFullWidth ==
  /\ [][(event'.type = "swipe step" /\ dispatched' # <<>>)
        => /\ style.content = Target(NextCallback)
           /\ style'.content = Target(NextCallback)]_vars
  /\ [][(dispatched # <<>> /\ IsStep')
        => style'.content = style.content]_vars

\* C13: the step that ends a _reset loop (it clears _translateX) finds the
\* content at offset 0, and a step of a _reset loop that transforms moves the
\* offset toward 0 without crossing it.
C13_ResetEndsAtZero ==
  [][event'.type = "reset step"
     => IF rafCallbacks' = FrameSelf.raf
        THEN translateX' = Undefined => style'.content = Num(0)
        ELSE /\ IsNum(translateX) /\ IsNum(translateX')
             /\ AbsInt(translateX'.v) <= AbsInt(translateX.v)
             /\ translateX'.v * translateX.v >= 0]_vars

\* The touch points and clock readings of the runs checked for liveness.
LiveXs == {0, 50}
LiveInput == event'.x \in LiveXs /\ event'.y = 0 /\ now' = 0
LiveTouchStart == TouchStart /\ LiveInput
LiveTouchMove == TouchMove /\ LiveInput
LiveTouchEnd == TouchEnd /\ LiveInput
LiveNext ==
  \/ ConnectedCallback
  \/ UpdateComplete
  \/ DisconnectedCallback
  \/ LiveTouchStart
  \/ LiveTouchMove
  \/ LiveTouchEnd
  \/ AnimationFrameSwipe
  \/ AnimationFrameReset

\* Animation frames keep being delivered: a requested step closure is run.
LiveSpec ==
  /\ Init /\ [][LiveNext]_vars
  /\ WF_vars(AnimationFrameSwipe) /\ WF_vars(AnimationFrameReset)

\* No finger is down and the last thing that happened is not a touch event. A
\* touch-end that starts a loop is followed by that loop's frames, so once touch
\* events have stopped Quiet holds for good unless the widget is at rest.
Quiet == touches = 0 /\ event.type \notin {"touchstart", "touchmove", "touchend"}
Idle == translateX = Undefined /\ PendingLoops = 0

\* C14: once every finger is lifted and touch events have stopped arriving,
\* while animation frames keep being delivered, the widget eventually is idle
\* for good: _translateX is undefined and no step closure is scheduled.
C14_EventuallyIdle == <>[]Quiet => <>[]Idle

\* The host takes the element out of the document and puts it back: one more
\* connectedCallback than in Spec, over the touch points of LiveXs.
Reconnect ==
  /\ ~isConnected
  /\ frameCallbacks = <<>>
  /\ connects < MaxConnects + 1
  /\ connects' = connects + 1
  /\ isConnected' = TRUE
  /\ updatePending' = updatePending + 1
  /\ event' = Ev("connected", 0, 0)
  /\ dispatched' = <<>>
  /\ UNCHANGED <<config, content, listeners, widget, frameCallbacks, now, touches,
                 loops, lastTouch>>
ReconnectNext ==
  \/ Reconnect
  \/ UpdateComplete
  \/ DisconnectedCallback
  \/ LiveTouchStart
  \/ LiveTouchMove
  \/ LiveTouchEnd
  \/ AnimationFrameSwipe
  \/ AnimationFrameReset
ReconnectSpec == Init /\ [][ReconnectNext]_vars

\* The last touch event is the touch-end that started the first animation of
\* the run: no loop was pending before it and no touch event has arrived since.
FirstAnimation == lastTouch \in {"swipe", "reset"} /\ loops = listeners
Pending == rafCallbacks \o frameCallbacks
\* The distance left from the offset to the target of a loop.
Remaining(cb) ==
  IF cb.fn = "swipe"
  THEN (IF cb.direction = "LEFT" THEN translateX.v + Width.v ELSE Width.v - translateX.v)
  ELSE (IF cb.direction = "LEFT" THEN 0 - translateX.v ELSE translateX.v)
OnSchedule(cb) ==
  /\ IsNum(translateX) /\ IsNum(cb.pixelPerFrame)
  /\ \E k \in 0..AnimFrames : Remaining(cb) = k * cb.pixelPerFrame.v

\* C15: with no touch event during the animation, every step that transforms
\* moves the offset by the loop's fixed pixelPerFrame, the distance left to the
\* target is always a whole number (at most animationTime * 0.06) of such steps
\* and never negative, and once no step is scheduled the content is at the
\* target and _translateX is undefined.
C15_FixedStepReachesTarget ==
  /\ [](FirstAnimation
          => /\ \A i \in 1..Len(Pending) : OnSchedule(Pending[i])
             /\ PendingLoops = 0
                  => /\ translateX = Undefined
                     /\ style.content \in {Num(0), Width, Neg(Width)})
  /\ [][(FirstAnimation /\ IsStep' /\ rafCallbacks' # FrameSelf.raf)
        => /\ IsNum(translateX) /\ IsNum(translateX')
           /\ AbsInt(translateX'.v - translateX.v) = NextCallback.pixelPerFrame.v]_vars

\* Math.max / Math.min of line 320 on a number of pixels.
Clamp(diffX) ==
  IF diffX < -offsetWidth THEN Neg(Width)
  ELSE IF diffX > offsetWidth THEN Width ELSE Num(diffX * Scale)

\* C16: with _translateX defined, a touch-move handled by a listener stores its
\* diffX, clamped to [-offsetWidth, +offsetWidth], whatever its angle, its
\* vertical extent and the size of diffX.
C16_MoveAppliedUngated ==
  [][(IsTouchMove' /\ listeners > 0 /\ translateX # Undefined)
     => /\ translateX' = Clamp(EventDiffX')
        /\ style'.content = Clamp(EventDiffX')]_vars

\* A move that would not have started a transform has been applied to one in
\* progress: below the threshold, too vertical, and beyond the widget's height.
C16_Witness_BelowThreshold ==
  /\ IsTouchMove /\ lastTouch = "moved" /\ PendingLoops = 0
  /\ AbsInt(EventDiffX) <= threshold /\ EventDiffX # 0
  /\ translateX = Num(EventDiffX * Scale)
C16_Seen_Vertical ==
  /\ IsTouchMove /\ lastTouch = "moved"
  /\ AbsInt(EventDiffX) < AbsInt(EventDiffY)
  /\ translateX = Clamp(EventDiffX)
C16_Seen_TooHigh ==
  /\ IsTouchMove /\ lastTouch = "moved"
  /\ AbsInt(EventDiffY) > offsetHeight
  /\ translateX = Clamp(EventDiffX)

\* C17: the step closure of a loop that was in flight when disconnectedCallback
\* ran does nothing on the next frame: it applies no transform, emits no event
\* and requests no frame.
C17_TeardownStopsLoop ==
  [][(event.type = "disconnected" /\ ~isConnected /\ IsStep')
     => /\ style' = style
        /\ dispatched' = <<>>
        /\ rafCallbacks' = FrameSelf.raf]_vars

\* The value Math.max(1, ...) / Math.min(1, ...) of lines 321-322 is a number
\* of the stated range.
AtLeastOne(r) == r.t = "number" /\ r.n >= r.d /\ r.d > 0
ZeroToOne(r) == r.t = "number" /\ 0 <= r.n /\ r.n <= r.d /\ r.d > 0

\* C18: once _transform has run, _scaleX is a number >= 1 and
\* _placeholderTextScaleX is a number in [0, 1], both are 1 at offset 0, and the
\* same holds of the scales applied to the placeholders.
C18_ScalesInRange ==
  (scaleX # RatioUndefined \/ placeholderTextScaleX # RatioUndefined)
    => /\ AtLeastOne(scaleX)
       /\ ZeroToOne(placeholderTextScaleX)
       /\ style.leftScale # RatioUndefined
            => AtLeastOne(style.leftScale) /\ ZeroToOne(style.leftText)
       /\ style.rightScale # RatioUndefined
            => AtLeastOne(style.rightScale) /\ ZeroToOne(style.rightText)
       /\ (event.type = "touchmove" /\ translateX = Num(0))
            => scaleX = Ratio(1, 1) /\ placeholderTextScaleX = Ratio(1, 1)

\* C19: every step closure that runs finds _translateX defined.
C19_StepSeesDefinedOffset ==
  [][IsStep' => translateX # Undefined]_vars

====
